---- MODULE Spec2Model ----
(***************************************************************************)
(* State-machine model of src/ota.py: the over-the-air updater             *)
(* (OTAUpdater), its per-file metadata (OTAFileMetadata) and the version   *)
(* database (OTADatabase), together with the device filesystem, the GitHub *)
(* responses and power loss.  Every filesystem operation of the source is  *)
(* one step, so that a power loss can fall between any two of them.        *)
(***************************************************************************)
EXTENDS Integers, Sequences, FiniteSets, TLC

\* ------------------------------------------------------------------ bounds
MaxBoots == 3        \* power-ons of the device
MaxCalls == 2        \* calls of updated() made by the main program
MaxPushes == 1       \* commits made to the repositories
MaxTicks == 2        \* advances of the device clock

\* --------------------------------------------------------------- constants
NoneVal == -1                        \* Python None, where a sha string is expected
EmptySha == 0                        \* '' : calculate_github_sha of a missing file
NonePath == "<None>"                 \* Python None, where a path is expected
LATEST_FILE_PREFIX == "__latest__"
ERROR_FILE_PREFIX == "__error__"
BACKUP_FILE_PREFIX == "__backup__"

\* File contents are short byte strings.  A byte 0 stands for text that the
\* compiler rejects.
Contents == {<<1>>, <<2>>, <<0>>}

VARIABLES
    fs,                       \* the flash filesystem: path -> content (os.listdir() is its domain)
    versions_json,            \* the file versions.json: [exists, decodes, data], data: filename -> entry
    filenames,                \* repo_dct flattened: the tracked file names, in order
    save_backups,             \* OTAUpdater.save_backups
    update_interval_minutes,  \* constructor argument (NoneVal: no timer)
    update_on_initialization, \* constructor argument
    current,                  \* OTAFileMetadata.current, per tracked file
    latest,                   \* OTAFileMetadata.latest
    latest_file,              \* OTAFileMetadata.latest_file
    last_update_time,         \* OTAUpdater.last_update_time
    files_updated_flag,       \* local of _check_for_updates
    pc,                       \* position of the program
    ndx,                      \* loop index over files_obj
    caller,                   \* who called update_latest
    ctor,                     \* inside OTAUpdater.__init__
    file_content,             \* local of update_latest
    db_existed,               \* result of db_file_exists() in OTADatabase.__init__
    force_update,             \* argument of updated()
    current_time,             \* local of updated()
    now,                      \* utime.time()
    remote,                   \* GitHub: the content each tracked file has in its repository
    pushes,                   \* commits so far
    ticks,                    \* clock advances so far
    boots,                    \* power-ons so far
    calls,                    \* updated() calls so far
    ret,                      \* how the last updated() call (or the constructor) ended
    outcome,                  \* per file: what its update_latest did in this pass
    fetched,                  \* per file: the 'sha' its response had in this pass
    promoted,                 \* files whose set_current_to_latest completed in this call
    reset_called,             \* machine.reset() was invoked by this call
    ran_pass,                 \* this call ran _check_and_apply_updates
    pre,                      \* the state at the start of this updated() call
    clean_pass_shas,          \* the 'sha' of every response of the last pass, if all its
                              \* fetches succeeded and it ended without raising (else <<>>)
    following_clean           \* clean_pass_shas as it was when this pass started

persistent == <<fs, versions_json>>
config == <<filenames, save_backups, update_interval_minutes, update_on_initialization>>
memory == <<current, latest, latest_file, last_update_time, files_updated_flag>>
control == <<pc, ndx, caller, ctor, file_content, db_existed, force_update, current_time>>
environment == <<now, remote, pushes, ticks, boots, calls>>
history == <<ret, outcome, fetched, promoted, reset_called, ran_pass, pre>>
sequel == <<clean_pass_shas, following_clean>>
vars == <<persistent, config, memory, control, environment, history, sequel>>

N == Len(filenames)
Idx == 1..N

\* ------------------------------------------------------------- filesystem
listdir == DOMAIN fs

\* a slip: a destination that exists is kept, the source is dropped
Rename_no_replace(f, src, dst) ==
    [p \in (DOMAIN f \ {src}) \cup {dst} |->
        IF p = dst /\ dst \notin DOMAIN f THEN f[src] ELSE f[p]]

Rename(f, src, dst) ==
    [p \in (DOMAIN f \ {src}) \cup {dst} |-> IF p = dst THEN f[src] ELSE f[p]]

WriteFile(f, path, data) ==
    [p \in DOMAIN f \cup {path} |-> IF p = path THEN data ELSE f[p]]

\* ------------------------------------------------------------ fingerprints
RECURSIVE sha1_update(_, _)
sha1_update(h, bytes) ==
    IF bytes = <<>> THEN h
    ELSE sha1_update(h * 31 + Head(bytes) + 1, Tail(bytes))

\* sha1 over "blob <len>\0" followed by the data
github_sha(data) == 1 + sha1_update(sha1_update(0, <<Len(data), 0>>), data)

calculate_github_sha(filename) ==
    IF filename \notin listdir THEN EmptySha ELSE github_sha(fs[filename])

valid_code(file_path) ==
    /\ file_path \in listdir
    /\ \A k \in 1..Len(fs[file_path]) : fs[file_path][k] # 0

\* ---------------------------------------------------------- OTAFileMetadata
get_filename(i) == filenames[i]

\* a slip: every fingerprint the remote reports counts as a new version
new_version_any_sha(cur, lat) == lat # NoneVal

new_version(cur, lat) == cur # lat

new_version_available(i) == new_version(current[i], latest[i])

to_json_with(i, cur, lat) ==
    [filename |-> get_filename(i), entry |-> [latest |-> lat, current |-> cur]]

to_json(i) == to_json_with(i, current[i], latest[i])

\* --------------------------------------------------------------- OTADatabase
db_file_exists == versions_json.exists

EmptyData == [n \in {} |-> 0]

\* versions.json was opened for writing and nothing was dumped into it
TruncatedDb == [exists |-> TRUE, decodes |-> FALSE, data |-> EmptyData]

\* read() catches OSError (no file) alone: json.load of a file that is not JSON
\* raises ValueError
read_raises == versions_json.exists /\ ~versions_json.decodes

entry_exists(filename) ==
    versions_json.exists /\ versions_json.decodes /\ filename \in DOMAIN versions_json.data

\* a slip: the item is put into a fresh dictionary
DictUpdate_alone(data, item) ==
    [n \in {item.filename} |-> item.entry]

DictUpdate(data, item) ==
    [n \in DOMAIN data \cup {item.filename} |->
        IF n = item.filename THEN item.entry ELSE data[n]]

DictDelete(data, filename) == [n \in DOMAIN data \ {filename} |-> data[n]]

\* create(item) when no entry exists yet: read (or {}), update, write
CreatedDb(item) ==
    [exists |-> TRUE,
     decodes |-> TRUE,
     data |-> DictUpdate(IF versions_json.exists THEN versions_json.data ELSE EmptyData, item)]

\* ----------------------------------------------------------------- paths
staged_path(i) == LATEST_FILE_PREFIX \o get_filename(i)
error_path(i) == ERROR_FILE_PREFIX \o get_filename(i)
backup_path(i) == BACKUP_FILE_PREFIX \o get_filename(i)

\* ------------------------------------------------------------ initial state
NoOutcome == [i \in Idx |-> "none"]
NoneFetched == [i \in Idx |-> NoneVal]
NoShas == <<>>

Snapshot ==
    [fs |-> fs, db |-> versions_json, current |-> current, latest |-> latest,
     latest_file |-> latest_file, last_update_time |-> last_update_time]

Init ==
    /\ filenames \in {<<"a", "b">>, <<"a", "a">>}
    /\ fs \in {[p \in {"a"} |-> <<1>>],
                [p \in {"a", "__backup__a"} |-> IF p = "a" THEN <<1>> ELSE <<2>>]}
    /\ remote = [i \in Idx |-> <<1>>]
    /\ versions_json = [exists |-> FALSE, decodes |-> FALSE, data |-> EmptyData]
    /\ save_backups \in BOOLEAN
    /\ update_interval_minutes \in {NoneVal, 1}
    /\ update_on_initialization \in BOOLEAN
    /\ current = [i \in Idx |-> EmptySha]
    /\ latest = [i \in Idx |-> NoneVal]
    /\ latest_file = [i \in Idx |-> NonePath]
    /\ last_update_time = NoneVal
    /\ files_updated_flag = FALSE
    /\ pc = "off"
    /\ ndx = 1
    /\ caller = ""
    /\ ctor = FALSE
    /\ file_content = <<>>
    /\ db_existed = FALSE
    /\ force_update = FALSE
    /\ current_time = 0
    /\ now = 0
    /\ pushes = 0
    /\ ticks = 0
    /\ boots = 0
    /\ calls = 0
    /\ ret = "none"
    /\ outcome = NoOutcome
    /\ fetched = NoneFetched
    /\ promoted = {}
    /\ reset_called = FALSE
    /\ ran_pass = FALSE
    /\ pre = Snapshot
    /\ clean_pass_shas = NoShas
    /\ following_clean = NoShas

DownSnapshot ==
    [fs |-> fs, db |-> versions_json, current |-> [i \in Idx |-> EmptySha],
     latest |-> [i \in Idx |-> NoneVal], latest_file |-> [i \in Idx |-> NonePath],
     last_update_time |-> NoneVal]

\* Volatile state is lost when the device goes down.
MemoryLost ==
    /\ current' = [i \in Idx |-> EmptySha]
    /\ latest' = [i \in Idx |-> NoneVal]
    /\ latest_file' = [i \in Idx |-> NonePath]
    /\ last_update_time' = NoneVal
    /\ files_updated_flag' = FALSE
    /\ ndx' = 1
    /\ caller' = ""
    /\ ctor' = FALSE
    /\ file_content' = <<>>
    /\ db_existed' = FALSE
    /\ force_update' = FALSE
    /\ current_time' = 0

\* -------------------------------------------------------- control transfer
\* update_latest returns normally to OTAFileMetadata.__init__ or to the loop
\* of fetch_updates.
Return_update_latest ==
    /\ UNCHANGED <<ctor, ret>>
    /\ IF caller = "OTAFileMetadata.__init__"
       THEN /\ caller' = ""
            /\ IF ndx < N THEN pc' = "file_init" /\ ndx' = ndx + 1
                          ELSE pc' = "db_init" /\ ndx' = 1
       ELSE IF ndx < N
            THEN pc' = "update_latest" /\ ndx' = ndx + 1 /\ caller' = caller
            ELSE pc' = "compare" /\ ndx' = 1 /\ caller' = ""

\* An exception nobody catches leaves updated() (or the constructor).
Propagate(exc) ==
    /\ ret' = exc
    /\ pc' = IF ctor THEN "halted" ELSE "idle"
    /\ ndx' = 1
    /\ caller' = ""
    /\ ctor' = FALSE

\* fetch_updates catches OTANewFileWillNotValidate around its whole loop.
Raise_update_latest(exc) ==
    IF caller = "fetch_updates" /\ exc = "OTANewFileWillNotValidate"
    THEN /\ pc' = "compare"
         /\ ndx' = 1
         /\ caller' = ""
         /\ UNCHANGED <<ctor, ret>>
    ELSE Propagate(exc)

\* the loop of _check_for_updates moves to its next entry, or returns
NextEntry ==
    IF ndx < N THEN pc' = "compare" /\ ndx' = ndx + 1
               ELSE pc' = "apply" /\ ndx' = 1

\* ------------------------------------------------------------ construction
PowerOn ==
    /\ pc = "off"
    /\ boots < MaxBoots
    /\ boots' = boots + 1
    /\ pc' = "file_init"
    /\ ctor' = TRUE
    /\ ndx' = 1
    /\ ret' = "none"
    /\ outcome' = NoOutcome
    /\ fetched' = NoneFetched
    /\ promoted' = {}
    /\ reset_called' = FALSE
    /\ ran_pass' = FALSE
    /\ pre' = Snapshot
    /\ UNCHANGED <<persistent, config, memory, caller, file_content, db_existed,
                   force_update, current_time, now, remote, pushes, ticks, calls>>
    /\ UNCHANGED sequel

OTAFileMetadata_init ==
    /\ pc = "file_init"
    /\ current' = [current EXCEPT ![ndx] = calculate_github_sha(get_filename(ndx))]
    /\ latest' = [latest EXCEPT ![ndx] = NoneVal]
    /\ latest_file' = [latest_file EXCEPT ![ndx] = NonePath]
    /\ pc' = "update_latest"
    /\ caller' = "OTAFileMetadata.__init__"
    /\ UNCHANGED <<persistent, config, last_update_time, files_updated_flag, ndx, ctor,
                   file_content, db_existed, force_update, current_time, environment,
                   history>>
    /\ UNCHANGED sequel

\* ------------------------------------------------------------ update_latest
\* mem_check fails before or after the request, or the request runs out of
\* memory: OTANoMemory.
update_latest_no_memory ==
    /\ pc = "update_latest"
    /\ \E point \in {"mem_check before", "MemoryError", "mem_check after"} :
          Raise_update_latest("OTANoMemory")
    /\ outcome' = [outcome EXCEPT ![ndx] = "nomem"]
    /\ UNCHANGED <<persistent, config, memory, file_content, db_existed, force_update,
                   current_time, environment, fetched, promoted, reset_called, ran_pass, pre>>
    /\ UNCHANGED sequel

\* the response is not JSON (ValueError) or has no 'sha': printed, nothing else
update_latest_undecodable ==
    /\ pc = "update_latest"
    /\ \E kind \in {"ValueError", "no sha"} : Return_update_latest
    /\ outcome' = [outcome EXCEPT ![ndx] = "undecodable"]
    /\ UNCHANGED <<persistent, config, memory, file_content, db_existed, force_update,
                   current_time, environment, fetched, promoted, reset_called, ran_pass, pre>>
    /\ UNCHANGED sequel

\* the response has the 'sha' of the remote file; has_content: it also has
\* its 'content'
update_latest_sha ==
    /\ pc = "update_latest"
    /\ \E c \in {remote[ndx]}, has_content \in BOOLEAN :
          /\ latest' = [latest EXCEPT ![ndx] = github_sha(c)]
          /\ fetched' = [fetched EXCEPT ![ndx] = github_sha(c)]
          /\ IF ~new_version(current[ndx], github_sha(c))
             THEN /\ Return_update_latest
                  /\ outcome' = [outcome EXCEPT ![ndx] = "same"]
                  /\ UNCHANGED <<fs, latest_file, file_content>>
             ELSE IF ~has_content
             THEN /\ Raise_update_latest("KeyError")
                  /\ outcome' = [outcome EXCEPT ![ndx] = "partial"]
                  /\ UNCHANGED <<fs, latest_file, file_content>>
             ELSE /\ latest_file' = [latest_file EXCEPT ![ndx] = staged_path(ndx)]
                  /\ fs' = WriteFile(fs, staged_path(ndx), <<>>)
                  /\ file_content' = c
                  /\ outcome' = [outcome EXCEPT ![ndx] = "staging"]
                  /\ pc' = "write_latest"
                  /\ UNCHANGED <<ndx, caller, ctor, ret>>
    /\ UNCHANGED <<versions_json, config, current, last_update_time, files_updated_flag,
                   db_existed, force_update, current_time, environment, promoted,
                   reset_called, ran_pass, pre>>
    /\ UNCHANGED sequel

update_latest_write ==
    /\ pc = "write_latest"
    /\ fs' = WriteFile(fs, latest_file[ndx], file_content)
    /\ pc' = "validate"
    /\ UNCHANGED <<versions_json, config, memory, ndx, caller, ctor, file_content,
                   db_existed, force_update, current_time, environment, history>>
    /\ UNCHANGED sequel

update_latest_validate ==
    /\ pc = "validate"
    /\ IF valid_code(latest_file[ndx])
       THEN /\ Return_update_latest
            /\ outcome' = [outcome EXCEPT ![ndx] = "valid"]
            /\ UNCHANGED <<fs, latest_file>>
       ELSE /\ fs' = Rename(fs, latest_file[ndx], error_path(ndx))
            /\ latest_file' = [latest_file EXCEPT ![ndx] = NonePath]
            /\ outcome' = [outcome EXCEPT ![ndx] = "invalid"]
            /\ Raise_update_latest("OTANewFileWillNotValidate")
    /\ file_content' = <<>>
    /\ UNCHANGED <<versions_json, config, current, latest, last_update_time,
                   files_updated_flag, db_existed, force_update, current_time,
                   environment, fetched, promoted, reset_called, ran_pass, pre>>
    /\ UNCHANGED sequel

\* ------------------------------------------------------------------ updated
update_interval_seconds ==
    IF update_interval_minutes # NoneVal THEN update_interval_minutes * 60 ELSE NoneVal

\* the gate of updated(): does this call go on to _check_and_apply_updates?
\* a slip: the interval has to be exceeded, not reached
interval_expired_strict(t) ==
    last_update_time = NoneVal \/ t - last_update_time > update_interval_seconds

interval_expired(t) ==
    last_update_time = NoneVal \/ t - last_update_time >= update_interval_seconds

should_check(force, t) ==
    IF force THEN TRUE
    ELSE IF update_interval_seconds # NoneVal THEN interval_expired(t)
    ELSE TRUE

\* updated(force_update) up to the first request of fetch_updates
BeginUpdated(force) ==
    /\ current_time' = now
    /\ force_update' = force
    /\ pre' = Snapshot
    /\ outcome' = NoOutcome
    /\ fetched' = NoneFetched
    /\ promoted' = {}
    /\ reset_called' = FALSE
    /\ IF should_check(force, now)
       THEN /\ ran_pass' = TRUE
            /\ ret' = "running"
            /\ pc' = "update_latest"
            /\ caller' = "fetch_updates"
            /\ files_updated_flag' = FALSE
            /\ following_clean' = clean_pass_shas
            /\ clean_pass_shas' = NoShas
            /\ UNCHANGED ctor
       ELSE /\ ran_pass' = FALSE
            /\ ret' = "False"
            /\ pc' = "idle"
            /\ ctor' = FALSE
            /\ UNCHANGED <<caller, files_updated_flag, sequel>>

updated ==
    /\ pc = "idle"
    /\ calls < MaxCalls
    /\ calls' = calls + 1
    /\ \E force \in BOOLEAN : BeginUpdated(force)
    /\ UNCHANGED <<persistent, config, current, latest, latest_file, last_update_time,
                   ndx, file_content, db_existed, now, remote, pushes, ticks, boots>>

\* ----------------------------------------------------- OTADatabase.__init__
OTADatabase_init ==
    /\ pc = "db_init"
    /\ db_existed' = db_file_exists
    /\ pc' = "db_create"
    /\ UNCHANGED <<persistent, config, memory, ndx, caller, ctor, file_content,
                   force_update, current_time, environment, history>>
    /\ UNCHANGED sequel

\* one iteration of either loop of OTADatabase.__init__
OTADatabase_init_entry ==
    /\ pc = "db_create"
    /\ IF read_raises
       THEN /\ Propagate("ValueError")
            /\ UNCHANGED versions_json
       ELSE IF db_existed /\ entry_exists(get_filename(ndx))
       THEN /\ UNCHANGED <<versions_json, ret, ctor, caller>>
            /\ IF ndx < N THEN pc' = "db_create" /\ ndx' = ndx + 1
                          ELSE pc' = "init_end" /\ ndx' = 1
       ELSE IF entry_exists(get_filename(ndx))
       THEN /\ Propagate("RuntimeError")
            /\ UNCHANGED versions_json
       ELSE /\ versions_json' = CreatedDb(to_json(ndx))
            /\ UNCHANGED <<ret, ctor, caller>>
            /\ IF ndx < N THEN pc' = "db_create" /\ ndx' = ndx + 1
                          ELSE pc' = "init_end" /\ ndx' = 1
    /\ UNCHANGED <<fs, config, memory, file_content, db_existed, force_update,
                   current_time, environment, outcome, fetched, promoted, reset_called,
                   ran_pass, pre>>
    /\ UNCHANGED sequel

\* the end of OTAUpdater.__init__
OTAUpdater_init_end ==
    /\ pc = "init_end"
    /\ last_update_time' = NoneVal
    /\ IF update_on_initialization
       THEN BeginUpdated(TRUE)
       ELSE /\ pc' = "idle"
            /\ ctor' = FALSE
            /\ UNCHANGED <<caller, files_updated_flag, force_update, current_time,
                           history, sequel>>
    /\ UNCHANGED <<persistent, config, current, latest, latest_file, ndx, file_content,
                   db_existed, environment>>

\* ------------------------------------------------------- _check_for_updates
compare_versions ==
    /\ pc = "compare"
    /\ IF new_version_available(ndx)
       THEN pc' = "set_current_to_latest" /\ UNCHANGED ndx
       ELSE NextEntry
    /\ UNCHANGED <<persistent, config, memory, caller, ctor, file_content, db_existed,
                   force_update, current_time, environment, history>>
    /\ UNCHANGED sequel

\* set_current_to_latest, first rename: the live file becomes the backup
set_current_to_latest_backup ==
    /\ pc = "set_current_to_latest"
    /\ fs' = IF save_backups /\ get_filename(ndx) \in listdir
             THEN Rename(fs, get_filename(ndx), backup_path(ndx))
             ELSE fs
    /\ pc' = "rename_latest"
    /\ UNCHANGED <<versions_json, config, memory, ndx, caller, ctor, file_content,
                   db_existed, force_update, current_time, environment, history>>
    /\ UNCHANGED sequel

\* set_current_to_latest, second rename: the staged file becomes the live file
set_current_to_latest_rename ==
    /\ pc = "rename_latest"
    /\ IF latest_file[ndx] = NonePath
       THEN /\ Propagate("TypeError")
            /\ UNCHANGED <<fs, current, fetched, promoted>>
       ELSE IF latest_file[ndx] \notin listdir
       THEN /\ Propagate("OSError")
            /\ UNCHANGED <<fs, current, fetched, promoted>>
       ELSE /\ fs' = Rename(fs, latest_file[ndx], get_filename(ndx))
            /\ current' = [current EXCEPT ![ndx] = latest[ndx]]
            /\ promoted' = promoted \cup {ndx}
            /\ pc' = "db_delete"
            /\ UNCHANGED <<ndx, caller, ctor, ret>>
    /\ UNCHANGED <<versions_json, config, latest, latest_file, last_update_time,
                   files_updated_flag, file_content, db_existed, force_update,
                   current_time, environment, outcome, fetched, reset_called, ran_pass,
                   pre>>
    /\ UNCHANGED sequel

\* OTADatabase.update: read, then delete(filename) rewrites the file without
\* the entry
db_update_delete ==
    /\ pc = "db_delete"
    /\ IF read_raises
       THEN /\ Propagate("ValueError")
            /\ UNCHANGED versions_json
       ELSE IF ~versions_json.exists
       THEN /\ Propagate("AttributeError")
            /\ UNCHANGED versions_json
       ELSE /\ versions_json' =
                 [versions_json EXCEPT !.data = DictDelete(@, get_filename(ndx))]
            /\ pc' = "db_write"
            /\ UNCHANGED <<ndx, caller, ctor, ret>>
    /\ UNCHANGED <<fs, config, memory, file_content, db_existed, force_update,
                   current_time, environment, outcome, fetched, promoted, reset_called,
                   ran_pass, pre>>
    /\ UNCHANGED sequel

\* OTADatabase.update: data.update(new_item), write; the data read before the
\* delete differs from the file only in the entry that is replaced here
db_update_write ==
    /\ pc = "db_write"
    /\ versions_json' = [versions_json EXCEPT !.data = DictUpdate(@, to_json(ndx))]
    /\ files_updated_flag' = TRUE
    /\ NextEntry
    /\ UNCHANGED <<fs, config, current, latest, latest_file, last_update_time, caller,
                   ctor, file_content, db_existed, force_update, current_time,
                   environment, history>>
    /\ UNCHANGED sequel

\* -------------------------------------------------- _check_and_apply_updates
\* every update_latest of the pass got a response with 'sha' and, where the
\* file had a new version, staged content that validated
NoFetchFailed == \A i \in Idx : outcome[i] \in {"same", "valid"}

\* a slip: the device is reset after every pass
updates_applied_always == TRUE

\* what _check_for_updates returns
updates_applied == files_updated_flag

check_and_apply_updates ==
    /\ pc = "apply"
    /\ IF updates_applied
       THEN /\ last_update_time' = current_time
            /\ pc' = "machine_reset"
            /\ UNCHANGED <<ctor, ret>>
       ELSE /\ ret' = "False"
            /\ pc' = "idle"
            /\ ctor' = FALSE
            /\ UNCHANGED last_update_time
    /\ clean_pass_shas' = IF NoFetchFailed THEN fetched ELSE NoShas
    /\ UNCHANGED following_clean
    /\ UNCHANGED <<persistent, config, current, latest, latest_file, files_updated_flag,
                   ndx, caller, file_content, db_existed, force_update, current_time,
                   environment, outcome, fetched, promoted, reset_called, ran_pass, pre>>

\* machine.reset() on the device: it restarts, nothing volatile survives
machine_reset ==
    /\ pc = "machine_reset"
    /\ reset_called' = TRUE
    /\ pc' = "off"
    /\ MemoryLost
    /\ ret' = "none"
    /\ outcome' = NoOutcome
    /\ fetched' = NoneFetched
    /\ promoted' = {}
    /\ ran_pass' = FALSE
    /\ pre' = DownSnapshot
    /\ UNCHANGED <<persistent, config, environment>>
    /\ UNCHANGED sequel

\* machine.reset() replaced by a stub: it returns, and so does updated(),
\* without a return value
machine_reset_returns ==
    /\ pc = "machine_reset"
    /\ reset_called' = TRUE
    /\ ret' = "None"
    /\ pc' = "idle"
    /\ ctor' = FALSE
    /\ UNCHANGED <<persistent, config, memory, ndx, caller, file_content, db_existed,
                   force_update, current_time, environment, outcome, fetched, promoted,
                   ran_pass, pre>>
    /\ UNCHANGED sequel

\* -------------------------------------------------------------- environment
\* power is lost, at any point of the program
PowerLoss ==
    /\ pc # "off"
    /\ pc' = "off"
    /\ MemoryLost
    /\ ret' = "none"
    /\ outcome' = NoOutcome
    /\ fetched' = NoneFetched
    /\ promoted' = {}
    /\ reset_called' = FALSE
    /\ ran_pass' = FALSE
    /\ pre' = DownSnapshot
    /\ UNCHANGED <<persistent, config, environment>>
    /\ UNCHANGED sequel

\* power is lost inside OTADatabase.write: open(..., 'w') has truncated
\* versions.json, json.dump has not written it
write_interrupted ==
    /\ \/ pc = "db_create" /\ ~read_raises /\ ~entry_exists(get_filename(ndx))
       \/ pc = "db_delete" /\ entry_exists(get_filename(ndx))
       \/ pc = "db_write"
    /\ versions_json' = TruncatedDb
    /\ pc' = "off"
    /\ MemoryLost
    /\ ret' = "none"
    /\ outcome' = NoOutcome
    /\ fetched' = NoneFetched
    /\ promoted' = {}
    /\ reset_called' = FALSE
    /\ ran_pass' = FALSE
    /\ pre' = [DownSnapshot EXCEPT !.db = TruncatedDb]
    /\ UNCHANGED <<fs, config, environment>>
    /\ UNCHANGED sequel

\* The clock is read by updated() alone, and compared with last_update_time
\* alone: time that passes while no timer runs is not told apart.
Tick ==
    /\ pc = "idle"
    /\ ticks < MaxTicks
    /\ ticks' = ticks + 1
    /\ last_update_time # NoneVal
    /\ update_interval_seconds # NoneVal
    /\ now' = now + 30
    /\ UNCHANGED <<persistent, config, memory, control, remote, pushes, boots, calls,
                   history>>
    /\ UNCHANGED sequel

\* Somebody commits a new version of a tracked file.  The device sees the
\* repositories through its requests alone, so a commit is placed right before
\* a request.
Push ==
    /\ pc = "update_latest"
    /\ pushes < MaxPushes
    /\ pushes' = pushes + 1
    /\ \E i \in Idx : \E c \in Contents \ {remote[i]} :
          remote' = [remote EXCEPT ![i] = c]
    /\ UNCHANGED <<persistent, config, memory, control, now, ticks, boots, calls, history>>
    /\ UNCHANGED sequel

Next ==
    \/ PowerOn
    \/ OTAFileMetadata_init
    \/ update_latest_no_memory
    \/ update_latest_undecodable
    \/ update_latest_sha
    \/ update_latest_write
    \/ update_latest_validate
    \/ OTADatabase_init
    \/ OTADatabase_init_entry
    \/ OTAUpdater_init_end
    \/ updated
    \/ compare_versions
    \/ set_current_to_latest_backup
    \/ set_current_to_latest_rename
    \/ db_update_delete
    \/ db_update_write
    \/ check_and_apply_updates
    \/ machine_reset
    \/ machine_reset_returns
    \/ PowerLoss
    \/ write_interrupted
    \/ Tick
    \/ Push

Spec == Init /\ [][Next]_vars

\* ------------------------------------------------- OTADatabase.update alone
\* OTADatabase.update(entry.to_json()) called on any store: no versions.json,
\* or one that holds entries for any of the file names, and any fingerprints
\* in the entry that is written.
Shas == {github_sha(<<1>>), github_sha(<<2>>)}

Entries == [latest : Shas, current : Shas]

DbStates ==
    {[exists |-> FALSE, decodes |-> FALSE, data |-> EmptyData]} \cup
    {[exists |-> TRUE, decodes |-> TRUE, data |-> d] :
        d \in UNION {[names -> Entries] : names \in SUBSET {"a", "b"}}}

InitDb ==
    /\ filenames = <<"a", "b">>
    /\ fs = [p \in {"a"} |-> <<1>>]
    /\ remote = [i \in Idx |-> <<1>>]
    /\ versions_json \in DbStates
    /\ save_backups = FALSE
    /\ update_interval_minutes = NoneVal
    /\ update_on_initialization = FALSE
    /\ current \in [Idx -> Shas]
    /\ latest \in [Idx -> Shas]
    /\ latest_file = [i \in Idx |-> NonePath]
    /\ last_update_time = NoneVal
    /\ files_updated_flag = FALSE
    /\ pc = "db_delete"
    /\ ndx \in Idx
    /\ caller = ""
    /\ ctor = FALSE
    /\ file_content = <<>>
    /\ db_existed = versions_json.exists
    /\ force_update = FALSE
    /\ current_time = 0
    /\ now = 0
    /\ pushes = 0
    /\ ticks = 0
    /\ boots = 1
    /\ calls = 1
    /\ ret = "running"
    /\ outcome = NoOutcome
    /\ fetched = NoneFetched
    /\ promoted = {}
    /\ reset_called = FALSE
    /\ ran_pass = TRUE
    /\ pre = Snapshot
    /\ clean_pass_shas = NoShas
    /\ following_clean = NoShas

NextDb ==
    \/ db_update_delete
    \/ db_update_write

SpecDb == InitDb /\ [][NextDb]_vars

TypeOK ==
    /\ pc \in {"off", "halted", "idle", "file_init", "update_latest", "write_latest",
               "validate", "db_init", "db_create", "init_end", "compare",
               "set_current_to_latest", "rename_latest", "db_delete", "db_write",
               "apply", "machine_reset"}
    /\ ndx \in Idx
    /\ promoted \subseteq Idx

\* ====================================================================
\* Properties
\* ====================================================================
Exceptions ==
    {"OTANoMemory", "OTANewFileWillNotValidate", "KeyError", "TypeError", "OSError",
     "RuntimeError", "AttributeError", "ValueError"}

\* an updated() call was made since power-on (it may still be running)
CallMade == ret # "none" /\ pc # "off" /\ (pc = "halted" => ran_pass)

\* the call ran a reconciliation pass, which is over: it returned or raised
PassEnded == ran_pass /\ pc \in {"idle", "halted"}

\* the pass has left the loop of fetch_updates
FetchLoopLeft ==
    ran_pass /\ pc \in {"compare", "set_current_to_latest", "rename_latest", "db_delete",
                        "db_write", "apply", "machine_reset", "idle", "halted"}

\* the file at path is as it was when the call started
PathSame(path) ==
    /\ path \in DOMAIN fs <=> path \in DOMAIN pre.fs
    /\ path \in DOMAIN fs => fs[path] = pre.fs[path]

\* the store entry of filename is as it was when the call started
EntrySame(filename) ==
    /\ versions_json.exists <=> pre.db.exists
    /\ filename \in DOMAIN versions_json.data <=> filename \in DOMAIN pre.db.data
    /\ filename \in DOMAIN versions_json.data =>
          versions_json.data[filename] = pre.db.data[filename]

\* text that was validated: complete and accepted by the compiler
ValidText(data) == data # <<>> /\ \A k \in 1..Len(data) : data[k] # 0

LiveValid(i) == get_filename(i) \in listdir /\ ValidText(fs[get_filename(i)])

\* the file has a staged copy that passed validation and is what latest names
StagedValid(i) ==
    /\ latest[i] # NoneVal
    /\ latest_file[i] # NonePath
    /\ latest_file[i] \in listdir
    /\ ValidText(fs[latest_file[i]])

\* C1: a tracked file that is on the device stays on it, whole and valid,
\* through every step of the program and every loss of power.
C1_LiveFileNeverMissing ==
    [][\A i \in Idx : LiveValid(i) => LiveValid(i)']_vars

\* C2: set_current_to_latest is entered only for a file with a pending update
\* and a validated staged copy.
C2_PromotionOnlyFromStagedValid ==
    pc = "set_current_to_latest" => new_version_available(ndx) /\ StagedValid(ndx)

\* C3: once the pass has left the fetch loop, every file listed after one whose
\* new content failed validation has been fetched as well.
C3_ValidationFailureDoesNotStopFetching ==
    FetchLoopLeft =>
        \A i \in Idx, j \in Idx :
            (i < j /\ outcome[i] = "invalid") => outcome[j] # "none"

\* C4: when a file's fetch ran out of memory, the later files are fetched all
\* the same and updated() does not raise OTANoMemory.
C4_NoMemoryAbortsOnlyThatFile ==
    PassEnded =>
        \A i \in Idx :
            outcome[i] = "nomem" =>
                /\ ret # "OTANoMemory"
                /\ \A j \in Idx : i < j => outcome[j] # "none"

\* no update_latest of the pass raised
NoFetchRaised == \A i \in Idx : outcome[i] \notin {"nomem", "partial", "invalid"}

\* C5: a file whose response could not be decoded, or had no 'sha', is left as
\* it was by the pass, and updated() does not raise (stated for the passes in
\* which no fetch of another file raised either).
C5_UndecodableLeavesFileUnchanged ==
    (PassEnded /\ NoFetchRaised) =>
        \A i \in Idx :
            outcome[i] = "undecodable" =>
                /\ current[i] = pre.current[i]
                /\ latest[i] = pre.latest[i]
                /\ latest_file[i] = pre.latest_file[i]
                /\ PathSame(get_filename(i))
                /\ EntrySame(get_filename(i))
                /\ ret \notin Exceptions

\* C6: a file on the device whose new remote content failed validation keeps
\* its fingerprint, its live file and its store entry through the pass; the
\* rejected text is kept as __error__<name> and the staged reference is cleared.
C6_ValidationFailureKeepsLiveFile ==
    PassEnded =>
        \A i \in Idx :
            (outcome[i] = "invalid" /\ get_filename(i) \in DOMAIN pre.fs) =>
                /\ current[i] = pre.current[i]
                /\ PathSame(get_filename(i))
                /\ error_path(i) \in listdir
                /\ error_path(i) # get_filename(i)
                /\ latest_file[i] = NonePath
                /\ EntrySame(get_filename(i))

\* every file's response had the fingerprint the file had when the call started
AllRemoteSame == \A i \in Idx : fetched[i] = pre.current[i]

\* C7: when every file's remote fingerprint equals its current fingerprint, the
\* pass writes nothing, promotes nothing, does not touch last_update_time, does
\* not reset the device, and returns False.
C7_UnchangedRemoteNoEffect ==
    (ran_pass /\ pc # "off" /\ AllRemoteSame) =>
        /\ fs = pre.fs
        /\ versions_json = pre.db
        /\ current = pre.current
        /\ last_update_time = pre.last_update_time
        /\ promoted = {}
        /\ ~reset_called
        /\ pc # "machine_reset"
        /\ PassEnded => ret = "False"

C7_Witness == PassEnded /\ AllRemoteSame /\ ret = "False"

\* C8: when the pass is over, every file it promoted is live with the
\* fingerprint recorded as current, the store has {current, latest} equal to
\* that fingerprint, and _check_for_updates returned True.
C8_PromotedFilesConsistent ==
    (PassEnded /\ promoted # {}) =>
        /\ ret \notin Exceptions
        /\ files_updated_flag
        /\ \A i \in promoted :
              /\ get_filename(i) \in listdir
              /\ calculate_github_sha(get_filename(i)) = current[i]
              /\ entry_exists(get_filename(i))
              /\ versions_json.data[get_filename(i)] =
                    [latest |-> current[i], current |-> current[i]]

\* the gate of check(force), in the words of the claim
GateOpen ==
    \/ force_update
    \/ update_interval_minutes = NoneVal
    \/ pre.last_update_time = NoneVal
    \/ current_time - pre.last_update_time >= update_interval_minutes * 60

\* C9: a call runs a pass exactly when it is forced, or no interval is set, or
\* no update was recorded, or the interval has elapsed; otherwise it returns
\* False and nothing at all has changed.
C9_GatingPolicy ==
    CallMade =>
        /\ ran_pass <=> GateOpen
        /\ ~ran_pass =>
              /\ ret = "False"
              /\ pc = "idle"
              /\ fetched = NoneFetched
              /\ outcome = NoOutcome
              /\ Snapshot = pre
              /\ ~reset_called

C9_Witness ==
    /\ CallMade
    /\ ~ran_pass
    /\ ~force_update
    /\ current_time - pre.last_update_time < update_interval_minutes * 60

\* C10: a call that promoted a file has recorded last_update_time and invoked
\* machine.reset() when it ends.
C10_AnyChangeImpliesRestart ==
    (PassEnded /\ promoted # {}) =>
        /\ reset_called
        /\ last_update_time = current_time

\* machine.reset() is being invoked, or was invoked by the call
ResetInvoked == pc = "machine_reset" \/ (reset_called /\ pc # "off")

\* C11: machine.reset() is invoked only by a call that promoted a file, and
\* only when the loop of _check_for_updates is over: no file is left pending,
\* every promoted file is live, the store is written with the entry of a
\* promoted file for each, and last_update_time is recorded.
C11_ResetOnlyAfterPromotionPass ==
    ResetInvoked =>
        /\ promoted # {}
        /\ last_update_time = current_time
        /\ \A i \in Idx : ~new_version_available(i)
        /\ \A i \in promoted :
              /\ get_filename(i) \in listdir
              /\ entry_exists(get_filename(i))
              /\ \E j \in promoted :
                    /\ get_filename(j) = get_filename(i)
                    /\ versions_json.data[get_filename(i)] = to_json(j).entry

C11_Witness == pc = "machine_reset" /\ promoted = Idx /\ filenames[1] # filenames[2]

\* the updated() call is over and did not raise
CallReturned == CallMade /\ pc = "idle" /\ ret \notin Exceptions

\* C12: updated() returns True when the call promoted a file and False when
\* it promoted none.
C12_ReturnsWhetherApplied ==
    CallReturned =>
        /\ promoted # {} => ret = "True"
        /\ promoted = {} => ret = "False"

\* no backup artifact is created, removed or rewritten by the step
BackupsSame ==
    \A i \in Idx :
        /\ backup_path(i) \in DOMAIN fs <=> backup_path(i) \in DOMAIN fs'
        /\ backup_path(i) \in DOMAIN fs => fs'[backup_path(i)] = fs[backup_path(i)]

\* what a step does to the backup artifacts
BackupStep ==
    /\ (pc = "set_current_to_latest" /\ pc' = "rename_latest") =>
          ((save_backups /\ get_filename(ndx) \in DOMAIN fs) =>
               /\ backup_path(ndx) \in DOMAIN fs'
               /\ fs'[backup_path(ndx)] = fs[get_filename(ndx)])
    /\ (pc = "rename_latest" /\ pc' = "db_delete") =>
          (/\ fs'[get_filename(ndx)] = fs[latest_file[ndx]]
           /\ BackupsSame)
    /\ ~save_backups => BackupsSame

\* C13: with save_backups, the first rename of set_current_to_latest makes
\* __backup__<name> the content that was live (replacing an earlier backup)
\* and the second rename makes the staged content live without touching the
\* backup; without save_backups no step creates or changes a backup artifact.
C13_BackupsOneGeneration == [][BackupStep]_vars

\* a promotion has replaced an earlier backup by the content that was live
C13_Witness ==
    /\ pc = "db_delete"
    /\ save_backups
    /\ backup_path(ndx) \in DOMAIN pre.fs
    /\ get_filename(ndx) \in DOMAIN pre.fs
    /\ pre.fs[backup_path(ndx)] # pre.fs[get_filename(ndx)]
    /\ fs[backup_path(ndx)] = pre.fs[get_filename(ndx)]
    /\ fs[get_filename(ndx)] # pre.fs[get_filename(ndx)]

\* OTADatabase.__init__ has completed since the device was powered on
DbInitDone ==
    /\ pc \notin {"off", "halted", "file_init", "db_init", "db_create"}
    /\ caller # "OTAFileMetadata.__init__"

\* C14: once the constructor has registered the tracked files, versions.json
\* decodes and holds an entry for every one of them, at every later step.
C14_RegisteredFilesHaveEntries ==
    DbInitDone => \A i \in Idx : entry_exists(get_filename(i))

\* under SpecDb: update() has returned; updated_ndx is the file it was called for
UpdateReturned == pc \in {"compare", "apply"}

updated_ndx == IF pc = "compare" THEN ndx - 1 ELSE N

\* C15: OTADatabase.update on a versions.json that exists leaves the entry of
\* the filename equal to the item's {current, latest} and every other entry
\* as it was; when versions.json does not exist it raises and creates nothing.
C15_UpdateReplacesOneEntry ==
    /\ UpdateReturned =>
          /\ pre.db.exists
          /\ versions_json.exists /\ versions_json.decodes
          /\ DOMAIN versions_json.data =
                DOMAIN pre.db.data \cup {get_filename(updated_ndx)}
          /\ versions_json.data[get_filename(updated_ndx)] =
                [latest |-> latest[updated_ndx], current |-> current[updated_ndx]]
          /\ \A n \in DOMAIN pre.db.data \ {get_filename(updated_ndx)} :
                versions_json.data[n] = pre.db.data[n]
    /\ ~pre.db.exists =>
          /\ versions_json = pre.db
          /\ pc = "db_delete" \/ (pc = "idle" /\ ret = "AttributeError")

\* an entry was replaced while another file's entry was in the store
C15_Witness ==
    /\ UpdateReturned
    /\ DOMAIN pre.db.data = {"a", "b"}
    /\ versions_json.data[get_filename(updated_ndx)] #
          pre.db.data[get_filename(updated_ndx)]

\* C16: a versions.json that does not decode is read as an absent store: no
\* operation of OTADatabase lets the decode error (ValueError) out, neither in
\* the constructor nor in a pass.
C16_CorruptStoreReadsAsAbsent == ret # "ValueError"

\* C17: two OTAFileMetadata objects never hold the same staged path, and the
\* constructor does not end with the RuntimeError of OTADatabase.create
\* ("Already an entry for ..."), whatever the repo_dct.
C17_NoSharedStagedPath ==
    /\ \A i \in Idx, j \in Idx :
          (i # j /\ latest_file[i] # NonePath) => latest_file[i] # latest_file[j]
    /\ ret # "RuntimeError"

\* C18: a file that the call has promoted has no staged reference: after
\* set_current_to_latest its latest_file is None (the fetches of a call all
\* come before its promotions).
C18_PromotionClearsStagedPath ==
    \A i \in promoted : latest_file[i] = NonePath

\* update_latest is between opening the staged file and validating it
Staging(i) == pc \in {"write_latest", "validate"} /\ ndx = i

\* C19: while the updater object exists, a staged file that latest_file names
\* (outside the steps that write it) passed validation and has the fingerprint recorded as latest; hence a
\* promoted file is live with the fingerprint recorded as current.
C19_StagedMatchesLatest ==
    pc # "halted" =>
        /\ \A i \in Idx :
              (latest_file[i] \in listdir /\ ~Staging(i)) =>
                  /\ ValidText(fs[latest_file[i]])
                  /\ github_sha(fs[latest_file[i]]) = latest[i]
        /\ \A i \in promoted : calculate_github_sha(get_filename(i)) = current[i]

\* C20: when a constructor has completed OTADatabase.__init__, whatever
\* happened before the device went down, the entry of every tracked file that
\* is live on the device has as current the fingerprint of that file.
C20_StoreMatchesLiveAfterStartup ==
    pc = "init_end" =>
        \A i \in Idx :
            get_filename(i) \in listdir =>
                /\ entry_exists(get_filename(i))
                /\ versions_json.data[get_filename(i)].current =
                      calculate_github_sha(get_filename(i))

\* this pass follows a pass whose fetches all succeeded and which ended
\* without raising, and every response of this pass had the 'sha' it had then
\* (and its 'content', where the pass asked for it)
FollowsCleanPass ==
    /\ ran_pass
    /\ pc # "off"
    /\ following_clean # NoShas
    /\ fetched = following_clean
    /\ \A i \in Idx : outcome[i] # "partial"

\* C21: a pass that follows a clean pass against the same remote, with or
\* without a restart of the device in between, downloads nothing, promotes
\* nothing, leaves files, store and fingerprints as they were (latest is set
\* where the constructor's own request had failed and left it None), does not
\* reset the device, and returns False.
C21_SecondPassIdempotent ==
    FollowsCleanPass =>
        /\ \A i \in Idx : outcome[i] = "same"
        /\ promoted = {}
        /\ fs = pre.fs
        /\ versions_json = pre.db
        /\ current = pre.current
        /\ \A i \in Idx : latest[i] = pre.latest[i] \/ pre.latest[i] = NoneVal
        /\ ~reset_called
        /\ pc # "machine_reset"
        /\ PassEnded => ret = "False"

====
